---- MODULE Spec2Model ----
(***************************************************************************)
(* Model of collector/pg_stat_database.go: one call of                     *)
(* PGStatDatabaseCollector.Update against one result stream of             *)
(* pg_stat_database, pushing constant metrics to the channel ch.           *)
(*                                                                         *)
(* float64 values are exact rationals <<numerator, denominator>> in lowest *)
(* terms, so that x / 1000.0 is a real division.  A raw result cell is     *)
(* [null, v]; a scanned sql.Null* variable is [Valid, V].                  *)
(***************************************************************************)
EXTENDS Integers, Sequences, FiniteSets, TLC

\* ------------------------------------------------------------------ bounds
MaxRows == 2        \* rows the result stream delivers at most
ChanCap == 1        \* buffer capacity of the metric channel ch

\* ------------------------------------------------------- float64 as rationals
RECURSIVE GCD(_, _)
GCD(a, b) == IF b = 0 THEN a ELSE GCD(b, a % b)

Float64(n) == <<n, 1>>

\* Variant: the division left out.
FloatNoDiv(x, k) == x

FloatDiv(x, k) ==
    LET g == GCD(x[1], x[2] * k)
    IN  IF x[1] = 0 THEN <<0, 1>> ELSE <<x[1] \div g, (x[2] * k) \div g>>

\* ------------------------------------------------------------ the catalog
statDatabaseSubsystem == "stat_database"

NewDesc(name) ==
    [subsystem |-> statDatabaseSubsystem, name |-> name,
     variableLabels |-> <<"datid", "datname">>]

statDatabaseNumbackends == NewDesc("numbackends")
statDatabaseXactCommit == NewDesc("xact_commit")
statDatabaseXactRollback == NewDesc("xact_rollback")
statDatabaseBlksRead == NewDesc("blks_read")
statDatabaseBlksHit == NewDesc("blks_hit")
statDatabaseTupReturned == NewDesc("tup_returned")
statDatabaseTupFetched == NewDesc("tup_fetched")
statDatabaseTupInserted == NewDesc("tup_inserted")
statDatabaseTupUpdated == NewDesc("tup_updated")
statDatabaseTupDeleted == NewDesc("tup_deleted")
statDatabaseConflicts == NewDesc("conflicts")
statDatabaseTempFiles == NewDesc("temp_files")
statDatabaseTempBytes == NewDesc("temp_bytes")
statDatabaseDeadlocks == NewDesc("deadlocks")
statDatabaseBlkReadTime == NewDesc("blk_read_time")
statDatabaseBlkWriteTime == NewDesc("blk_write_time")
statDatabaseStatsReset == NewDesc("stats_reset")
statDatabaseActiveTime == NewDesc("active_time_seconds_total")

\* ------------------------------------------------------ columns and query
StaticColumns ==
    << "datid", "datname", "numbackends", "xact_commit", "xact_rollback",
       "blks_read", "blks_hit", "tup_returned", "tup_fetched", "tup_inserted",
       "tup_updated", "tup_deleted", "conflicts", "temp_files", "temp_bytes",
       "deadlocks", "blk_read_time", "blk_write_time", "stats_reset" >>

ActiveTimeMinVersion == <<14, 0, 0>>

\* semver.Version.GTE: major, then minor, then patch
GTE(v, o) ==
    \/ v[1] > o[1]
    \/ v[1] = o[1] /\ v[2] > o[2]
    \/ v[1] = o[1] /\ v[2] = o[2] /\ v[3] >= o[3]

ActiveTimeAvail(v) == GTE(v, ActiveTimeMinVersion)

Columns(avail) ==
    IF avail THEN Append(StaticColumns, "active_time") ELSE StaticColumns

statDatabaseQuery(cols) == [select |-> cols, from |-> "pg_stat_database"]

Range(s) == {s[i] : i \in 1..Len(s)}

\* --------------------------------------------------- what the server holds
Versions == {<<13, 5, 1>>, <<14, 0, 0>>, <<14, 2, 0>>}

StringCols == {"datid", "datname"}
TimeCols == {"stats_reset"}

ZeroOf(c) ==
    IF c \in StringCols THEN "" ELSE IF c \in TimeCols THEN [sec |-> 0] ELSE 0

ColIndex(c) == CHOOSE i \in 1..Len(Columns(TRUE)) : Columns(TRUE)[i] = c

\* Two databases of the server, with distinct values in every column.
Databases == {"appdb", "postgres"}

Stored(db, c) ==
    IF db = "appdb"
    THEN CASE c = "datid" -> "12345"
           [] c = "datname" -> "appdb"
           [] c = "stats_reset" -> [sec |-> 1685059842]
           [] c = "active_time" -> 4200
           [] OTHER -> 100 + ColIndex(c)
    ELSE CASE c = "datid" -> "1"
           [] c = "datname" -> "postgres"
           [] c = "stats_reset" -> [sec |-> 86400]
           [] c = "active_time" -> 2500
           [] c = "deadlocks" -> 0
           [] OTHER -> 200 + ColIndex(c)

\* Which cells of a delivered row are NULL: none, any single one, any
\* combination of the identity columns with deadlocks and stats_reset,
\* stats_reset together with active_time, or all of them.
NullSets(cols) ==
    {{}} \cup {{c} : c \in Range(cols)}
    \cup (SUBSET {"datid", "datname", "deadlocks", "stats_reset"})
    \cup {Range(cols) \cap {"stats_reset", "active_time"}}
    \cup {Range(cols)}

\* A result row for the queried columns: the stored values of one database,
\* some cells NULL; malformed rows make Scan fail on a conversion.
ResultRow(cols, db, nulls, malformed) ==
    [cols |-> cols,
     malformed |-> malformed,
     cell |-> [c \in Range(cols) |->
                 IF c \in nulls THEN [null |-> TRUE, v |-> ZeroOf(c)]
                 ELSE [null |-> FALSE, v |-> Stored(db, c)]]]

ResultRows(cols, dbs) ==
    {ResultRow(cols, db, nulls, FALSE) : db \in dbs, nulls \in NullSets(cols)}
    \cup {ResultRow(cols, "appdb", {}, TRUE)}

NoRow == ResultRow(<<>>, "appdb", {}, FALSE)

\* ------------------------------------------------------------------- state
VARIABLES
    server,           \* the databases pg_stat_database has rows of
    version,          \* instance.version
    cancelled,        \* ctx has been cancelled
    pc,               \* where Update stands: start, next, scan, push, done
    activeTimeAvail,  \* local of Update
    columns,          \* local of Update
    rows,             \* the *sql.Rows handle: none, open, closed
    rowsErr,          \* rows.Err() # nil: the stream broke while fetching
    fetched,          \* rows that rows.Next() has delivered
    cur,              \* the row rows.Next() delivered last
    scanned,          \* the sql.Null* locals of the iteration
    statsResetMetric, \* local of the iteration
    labels,           \* local of the iteration
    k,                \* index of the next channel send of the iteration
    sink,             \* every metric sent on ch, in order
    chanLen,          \* metrics in the buffer of ch, not yet received
    ret               \* what Update returned: none (running), nil, an error

vars == <<server, version, cancelled, pc, activeTimeAvail, columns, rows, rowsErr,
          fetched, cur, scanned, statsResetMetric, labels, k, sink, chanLen,
          ret>>

\* ----------------------------------------------------------- rows.Scan
\* The destinations handed to rows.Scan, in order.
ScanDest(avail) ==
    LET r == << "datid", "datname", "numbackends", "xact_commit",
                "xact_rollback", "blks_read", "blks_hit", "tup_returned",
                "tup_fetched", "tup_inserted", "tup_updated", "tup_deleted",
                "conflicts", "temp_files", "temp_bytes", "deadlocks",
                "blk_read_time", "blk_write_time", "stats_reset" >>
    IN  IF avail THEN Append(r, "active_time") ELSE r

\* The zero value of a declared sql.NullString / NullFloat64 / NullTime.  The
\* zero time.Time lies in year 1: its Unix() is -62135596800, which the model
\* keeps negative within its integer range.
Declared(c) ==
    [Valid |-> FALSE,
     V |-> IF c \in StringCols THEN ""
           ELSE IF c \in TimeCols THEN [sec |-> -2147483647] ELSE Float64(0)]

ScanCell(c, cell) ==
    IF cell.null THEN Declared(c)
    ELSE [Valid |-> TRUE,
          V |-> IF c \in StringCols \cup TimeCols THEN cell.v
                ELSE Float64(cell.v)]

\* rows.Scan fails when the destinations do not match the row's columns or a
\* cell cannot be converted.
\* Variant: a conversion failure goes unnoticed.
ScanFailsOnArityOnly(row, dest) == Len(dest) # Len(row.cols)

ScanFails(row, dest) == Len(dest) # Len(row.cols) \/ row.malformed

\* The locals after a successful rows.Scan(r...): the i-th destination
\* receives the i-th cell; a local that is no destination stays as declared.
ScanInto(row, dest) ==
    [c \in Range(ScanDest(TRUE)) |->
        IF \E i \in 1..Len(dest) : dest[i] = c
        THEN LET i == CHOOSE j \in 1..Len(dest) : dest[j] = c
             IN  ScanCell(c, row.cell[row.cols[i]])
        ELSE Declared(c)]

\* The locals the iteration tests with `if !x.Valid { continue }`, in order;
\* statsReset is not among them.
IdentityChecks == << "datid", "datname" >>

ValueChecks ==
    << "numbackends", "xact_commit", "xact_rollback", "blks_read", "blks_hit",
       "tup_returned", "tup_fetched", "tup_inserted", "tup_updated",
       "tup_deleted", "conflicts", "temp_files", "temp_bytes", "deadlocks",
       "blk_read_time", "blk_write_time" >>

\* Variants: a chain lacking the deadlocks test, one lacking the datname test,
\* and one testing activeTime whatever the version.
ChecksWithoutDeadlocks(avail) ==
    LET c == IdentityChecks \o SelectSeq(ValueChecks, LAMBDA x : x # "deadlocks")
    IN  IF avail THEN Append(c, "active_time") ELSE c

ChecksWithoutDatname(avail) ==
    LET c == << "datid" >> \o ValueChecks
    IN  IF avail THEN Append(c, "active_time") ELSE c

ChecksActiveTimeAlways(avail) ==
    Append(IdentityChecks \o ValueChecks, "active_time")

ValidityChecks(avail) ==
    LET c == IdentityChecks \o ValueChecks
    IN  IF avail THEN Append(c, "active_time") ELSE c

\* Some test of the chain hits an invalid local: the iteration `continue`s.
SkipRow(avail, s) ==
    \E i \in 1..Len(ValidityChecks(avail)) : ~s[ValidityChecks(avail)[i]].Valid

\* time.Time.Unix
Unix(t) == t.sec

\* Variant: statsReset.Time read without looking at Valid.
StatsResetUnchecked(s) == Float64(Unix(s["stats_reset"].V))

StatsResetMetric(s) ==
    IF s["stats_reset"].Valid THEN Float64(Unix(s["stats_reset"].V))
    ELSE Float64(0)

Labels(s) == <<s["datid"].V, s["datname"].V>>

MustNewConstMetric(desc, kind, value, lbls) ==
    [desc |-> desc, kind |-> kind, value |-> value, labels |-> lbls]

\* The channel sends of one iteration, in program order.
Metrics(avail, s, reset, lbls) ==
    LET fixed == <<
          MustNewConstMetric(statDatabaseNumbackends, "Gauge", s["numbackends"].V, lbls),
          MustNewConstMetric(statDatabaseXactCommit, "Counter", s["xact_commit"].V, lbls),
          MustNewConstMetric(statDatabaseXactRollback, "Counter", s["xact_rollback"].V, lbls),
          MustNewConstMetric(statDatabaseBlksRead, "Counter", s["blks_read"].V, lbls),
          MustNewConstMetric(statDatabaseBlksHit, "Counter", s["blks_hit"].V, lbls),
          MustNewConstMetric(statDatabaseTupReturned, "Counter", s["tup_returned"].V, lbls),
          MustNewConstMetric(statDatabaseTupFetched, "Counter", s["tup_fetched"].V, lbls),
          MustNewConstMetric(statDatabaseTupInserted, "Counter", s["tup_inserted"].V, lbls),
          MustNewConstMetric(statDatabaseTupUpdated, "Counter", s["tup_updated"].V, lbls),
          MustNewConstMetric(statDatabaseTupDeleted, "Counter", s["tup_deleted"].V, lbls),
          MustNewConstMetric(statDatabaseConflicts, "Counter", s["conflicts"].V, lbls),
          MustNewConstMetric(statDatabaseTempFiles, "Counter", s["temp_files"].V, lbls),
          MustNewConstMetric(statDatabaseTempBytes, "Counter", s["temp_bytes"].V, lbls),
          MustNewConstMetric(statDatabaseDeadlocks, "Counter", s["deadlocks"].V, lbls),
          MustNewConstMetric(statDatabaseBlkReadTime, "Counter", s["blk_read_time"].V, lbls),
          MustNewConstMetric(statDatabaseBlkWriteTime, "Counter", s["blk_write_time"].V, lbls),
          MustNewConstMetric(statDatabaseStatsReset, "Counter", reset, lbls) >>
    IN  IF avail
        THEN Append(fixed,
               MustNewConstMetric(statDatabaseActiveTime, "Counter",
                                  FloatDiv(s["active_time"].V, 1000), lbls))
        ELSE fixed

\* -------------------------------------------------------------------- Init
InitWith(dbs) ==
    /\ server = dbs
    /\ version \in Versions
    /\ cancelled = FALSE
    /\ pc = "start"
    /\ activeTimeAvail = FALSE
    /\ columns = <<>>
    /\ rows = "none"
    /\ rowsErr = FALSE
    /\ fetched = 0
    /\ cur = NoRow
    /\ scanned = [c \in Range(ScanDest(TRUE)) |-> Declared(c)]
    /\ statsResetMetric = Float64(0)
    /\ labels = <<"", "">>
    /\ k = 0
    /\ sink = <<>>
    /\ chanLen = 0
    /\ ret = "none"

Init == \E dbs \in {{"appdb"}, Databases} : InitWith(dbs)

\* ----------------------------------------------------------------- actions
iterLocals == <<cur, scanned, statsResetMetric, labels, k>>

\* Variant: a return that leaves the handle as it is.
ReturnWithoutClose(err) ==
    /\ pc' = "done"
    /\ ret' = err
    /\ rows' = rows

\* `return err` / `return nil` once `defer rows.Close()` is registered.
ReturnDeferred(err) ==
    /\ pc' = "done"
    /\ ret' = err
    /\ rows' = "closed"

\* Variant: the error of db.QueryContext dropped.
QueryContextErrIgnored ==
    /\ pc = "start"
    /\ activeTimeAvail' = ActiveTimeAvail(version)
    /\ columns' = Columns(activeTimeAvail')
    /\ \E ok \in BOOLEAN :
         /\ cancelled => ~ok
         /\ pc' = "next" /\ ret' = ret
         /\ rows' = IF ok THEN "open" ELSE rows
    /\ UNCHANGED <<server, version, cancelled, rowsErr, fetched, iterLocals, sink, chanLen>>

\* Update up to and including db.QueryContext.  A cancelled context makes the
\* query fail; otherwise the server decides.
QueryContext ==
    /\ pc = "start"
    /\ activeTimeAvail' = ActiveTimeAvail(version)
    /\ columns' = Columns(activeTimeAvail')
    /\ \E ok \in BOOLEAN :
         /\ cancelled => ~ok
         /\ IF ok
            THEN pc' = "next" /\ rows' = "open" /\ ret' = ret
            ELSE pc' = "done" /\ rows' = rows /\ ret' = "QueryErr"
    /\ UNCHANGED <<server, version, cancelled, rowsErr, fetched, iterLocals, sink, chanLen>>

\* rows.Next() delivers a row of the queried columns.
RowsNextRow ==
    /\ pc = "next"
    /\ ~cancelled
    /\ fetched < MaxRows
    /\ \E row \in ResultRows(statDatabaseQuery(columns).select, server) :
         cur' = row
    /\ fetched' = fetched + 1
    /\ pc' = "scan"
    /\ UNCHANGED <<server, version, cancelled, activeTimeAvail, columns, rows, rowsErr,
                   scanned, statsResetMetric, labels, k, sink, chanLen, ret>>

\* Variant: a fetch that does not observe the context.
RowsNextEndUnlessCancelled ==
    /\ pc = "next"
    /\ ~cancelled
    /\ \E broke \in BOOLEAN : rowsErr' = broke
    /\ ReturnDeferred("nil")
    /\ UNCHANGED <<server, version, cancelled, activeTimeAvail, columns, fetched,
                   iterLocals, sink, chanLen>>

\* rows.Next() returns false: the stream ended, or it broke (rows.Err() is set;
\* always so when the context is cancelled).  The loop ends, Update returns nil.
RowsNextEnd ==
    /\ pc = "next"
    /\ \E broke \in BOOLEAN :
         /\ cancelled => broke
         /\ rowsErr' = broke
    /\ ReturnDeferred("nil")
    /\ UNCHANGED <<server, version, cancelled, activeTimeAvail, columns, fetched,
                   iterLocals, sink, chanLen>>

\* The loop body from rows.Scan to the first channel send.
Scan ==
    /\ pc = "scan"
    /\ LET dest == ScanDest(activeTimeAvail)
           s == ScanInto(cur, dest)
       IN  IF ScanFails(cur, dest)
           THEN /\ ReturnDeferred("ScanErr")
                /\ UNCHANGED <<scanned, statsResetMetric, labels, k>>
           ELSE /\ scanned' = s
                /\ rows' = rows /\ ret' = ret
                /\ IF SkipRow(activeTimeAvail, s)
                   THEN /\ pc' = "next"
                        /\ UNCHANGED <<statsResetMetric, labels, k>>
                   ELSE /\ statsResetMetric' = StatsResetMetric(s)
                        /\ labels' = Labels(s)
                        /\ k' = 1
                        /\ pc' = "push"
    /\ UNCHANGED <<server, version, cancelled, activeTimeAvail, columns, rowsErr,
                   fetched, cur, sink, chanLen>>

\* One `ch <- metric`: it proceeds only while the channel has room.
Push ==
    /\ pc = "push"
    /\ chanLen < ChanCap
    /\ LET ms == Metrics(activeTimeAvail, scanned, statsResetMetric, labels)
       IN  /\ sink' = Append(sink, [row |-> fetched, metric |-> ms[k]])
           /\ IF k < Len(ms)
              THEN k' = k + 1 /\ pc' = pc
              ELSE k' = 0 /\ pc' = "next"
    /\ chanLen' = chanLen + 1
    /\ UNCHANGED <<server, version, cancelled, activeTimeAvail, columns, rows, rowsErr,
                   fetched, cur, scanned, statsResetMetric, labels, ret>>

\* The receiver of ch takes one metric.
Receive ==
    /\ chanLen > 0
    /\ chanLen' = chanLen - 1
    /\ UNCHANGED <<server, version, cancelled, pc, activeTimeAvail, columns, rows,
                   rowsErr, fetched, iterLocals, sink, ret>>

\* The caller cancels ctx while Update runs.
Cancel ==
    /\ ~cancelled
    /\ pc # "done"
    /\ cancelled' = TRUE
    /\ UNCHANGED <<server, version, pc, activeTimeAvail, columns, rows, rowsErr,
                   fetched, iterLocals, sink, chanLen, ret>>

Next ==
    \/ QueryContext
    \/ RowsNextRow
    \/ RowsNextEnd
    \/ Scan
    \/ Push
    \/ Receive
    \/ Cancel

Spec == Init /\ [][Next]_vars

\* Update as a process of the Go scheduler: its own steps keep running, and a
\* cancelled context makes blocked database I/O return.  Nothing makes the
\* server answer otherwise, nor the receiver of ch receive.
Fairness ==
    /\ WF_vars(Scan)
    /\ WF_vars(Push)
    /\ WF_vars(cancelled /\ QueryContext)
    /\ WF_vars(cancelled /\ RowsNextEnd)

\* Liveness is checked on a server with a single database.
LiveInit == InitWith({"appdb"})

LiveSpec == LiveInit /\ [][Next]_vars /\ Fairness

\* ================================================================== claims
\* What the claims say of a row is stated on the raw row `cur`, the version
\* and the sink, not through the operators Update is modelled with.

ObsOfRow(i) == SelectSeq(sink, LAMBDA o : o.row = i)

\* The iteration over the row delivered last has run to its end.
Processed ==
    /\ fetched > 0
    /\ ~cur.malformed
    /\ pc = "next" \/ (pc = "done" /\ ret = "nil")

Requested == Range(cur.cols)
IsNull(c) == c \in Requested /\ cur.cell[c].null
NullCols == {c \in Requested : cur.cell[c].null}
IdentityPresent == ~IsNull("datid") /\ ~IsNull("datname")

FullCount == IF version[1] >= 14 THEN 18 ELSE 17

CatalogNames ==
    (Range(StaticColumns) \ {"datid", "datname"})
    \cup (IF version[1] >= 14 THEN {"active_time_seconds_total"} ELSE {})

\* The observation the catalog entry `name` yields for the raw row `cur`.
AsSpecified(o) ==
    LET name == o.metric.desc.name
        v == o.metric.value
    IN  /\ o.metric.labels = <<cur.cell["datid"].v, cur.cell["datname"].v>>
        /\ o.metric.kind = (IF name = "numbackends" THEN "Gauge" ELSE "Counter")
        /\ CASE name = "active_time_seconds_total" ->
                  v[2] > 0 /\ v[1] * 1000 = cur.cell["active_time"].v * v[2]
             [] name = "stats_reset" ->
                  v = <<(IF IsNull("stats_reset") THEN 0
                         ELSE cur.cell["stats_reset"].v.sec), 1>>
             [] OTHER -> v = <<cur.cell[name].v, 1>>

OnePerCatalogEntry(obs) ==
    /\ Len(obs) = FullCount
    /\ {obs[i].metric.desc.name : i \in 1..Len(obs)} = CatalogNames
    /\ \A i, j \in 1..Len(obs) : obs[i].metric.desc = obs[j].metric.desc => i = j
    /\ \A i \in 1..Len(obs) : AsSpecified(obs[i])

\* C1 (as claimed): a row with its identity present and exactly one other
\* column than stats_reset NULL yields one observation fewer than the full
\* row: only the metric of the NULL column is missing.
C1_OneFewerObservation ==
    (Processed /\ IdentityPresent /\ Cardinality(NullCols) = 1
        /\ ~IsNull("stats_reset"))
    => LET obs == ObsOfRow(fetched)
       IN  /\ Len(obs) = FullCount - 1
           /\ \A i \in 1..Len(obs) : AsSpecified(obs[i])

\* C1 (amended): a row with its identity present and exactly one other column
\* than stats_reset NULL yields no observation at all, and Update goes on
\* without an error.
C1_RowDiscarded ==
    (Processed /\ IdentityPresent /\ Cardinality(NullCols) = 1
        /\ ~IsNull("stats_reset"))
    => /\ ObsOfRow(fetched) = <<>>
       /\ ret \in {"none", "nil"}

C1_Witness ==
    /\ Processed /\ fetched = 2 /\ pc = "next"
    /\ NullCols = {"deadlocks"}
    /\ Len(ObsOfRow(1)) = FullCount
    /\ ObsOfRow(2) = <<>>

\* C2 (as claimed): when fetching the next row breaks the stream, or a row's
\* scan fails, Update returns a non-nil error; it returns nil only when the
\* stream was read to its end without a failure.
C2_IterationFailureSurfaces ==
    pc = "done" /\ rows = "closed"
    => (ret = "nil" <=> ~rowsErr /\ ~cur.malformed)

\* C3 (as claimed): an Update call that returns a non-nil error has pushed
\* nothing to the sink.
C3_ErrorMeansEmptySink ==
    pc = "done" /\ ret \in {"QueryErr", "ScanErr"} => sink = <<>>

\* C3 (amended): when the scan of a row fails, Update returns a non-nil error
\* and has pushed nothing for the failing row or a later one; what it pushed
\* for earlier rows, each of them completely, stays in the sink.
C3_NothingFromFailingRowOn ==
    (fetched > 0 /\ cur.malformed /\ pc # "scan")
    => /\ pc = "done" /\ ret = "ScanErr"
       /\ \A i \in 1..Len(sink) : sink[i].row < fetched
       /\ \A i \in 1..fetched : Len(ObsOfRow(i)) \in {0, FullCount}

C3_Witness ==
    /\ pc = "done" /\ ret = "ScanErr"
    /\ fetched = 2 /\ cur.malformed
    /\ Len(sink) = FullCount

\* C4 (as claimed): once the context is cancelled, Update eventually returns
\* with the result handle not open, wherever it stood.
C4_CancelledReturns ==
    cancelled ~> (pc = "done" /\ rows # "open")

\* C4 (amended): provided the receiver of the sink keeps taking metrics, once
\* the context is cancelled Update eventually returns with the result handle
\* not open; the sends to the sink are suspension points as well.
C4_CancelledReturnsIfDrained ==
    ([]<>(chanLen < ChanCap)) => (cancelled ~> (pc = "done" /\ rows # "open"))

C4_Witness ==
    /\ cancelled /\ pc = "done" /\ rows = "closed"
    /\ Len(sink) = FullCount /\ fetched = 1

\* C5: a row whose datid or datname is NULL yields no observation and no
\* error, and Update resumes at the row fetch in the state it fetched the row
\* in: handle open, sink and channel untouched, nothing returned.
C5_IdentityNullDiscarded ==
    [][(pc = "scan" /\ pc' # "scan" /\ ~cur.malformed /\ ~IdentityPresent)
        => /\ pc' = "next"
           /\ sink' = sink /\ chanLen' = chanLen
           /\ ret' = "none" /\ rows' = "open" /\ ~rowsErr'
           /\ columns' = columns /\ activeTimeAvail' = activeTimeAvail]_vars

C5_Witness ==
    /\ Processed /\ pc = "next" /\ fetched = 2
    /\ NullCols = {"datname"}
    /\ Len(ObsOfRow(1)) = FullCount /\ ObsOfRow(2) = <<>>
    /\ ret = "none" /\ rows = "open"

\* C6: a row with every requested column present yields exactly one
\* observation per catalog entry active for the version (17 below 14.0.0, 18
\* from 14.0.0 on, then including active_time), none twice, each labelled
\* [datid, datname], numbackends a Gauge and the rest Counters, each value the
\* raw column value except active_time, which is the raw value / 1000.
C6_FullRowOnePerEntry ==
    (Processed /\ NullCols = {})
    => LET obs == ObsOfRow(fetched)
       IN  /\ OnePerCatalogEntry(obs)
           /\ (version[1] < 14 =>
                 \A i \in 1..Len(obs) :
                    obs[i].metric.desc.name # "active_time_seconds_total")
           /\ \A i \in 1..Len(obs) :
                 (obs[i].metric.desc.name = "active_time_seconds_total"
                    /\ cur.cell["active_time"].v = 4200)
                 => obs[i].metric.value = <<21, 5>>

C6_Witness ==
    /\ Processed /\ NullCols = {}
    /\ version = <<14, 2, 0>>
    /\ cur.cell["active_time"].v = 4200
    /\ Len(ObsOfRow(fetched)) = 18
    /\ \E i \in 1..Len(sink) :
          /\ sink[i].row = fetched
          /\ sink[i].metric.desc.name = "active_time_seconds_total"
          /\ sink[i].metric.value = <<21, 5>>

\* C7: a row whose stats_reset is NULL and whose other requested columns are
\* present is not discarded and loses no metric: stats_reset is observed as 0
\* with kind Counter, the other observations are those of the full row.
C7_StatsResetDefaultsToZero ==
    (Processed /\ NullCols = {"stats_reset"})
    => LET obs == ObsOfRow(fetched)
       IN  /\ OnePerCatalogEntry(obs)
           /\ \E i \in 1..Len(obs) :
                 /\ obs[i].metric.desc.name = "stats_reset"
                 /\ obs[i].metric.value = <<0, 1>>
                 /\ obs[i].metric.kind = "Counter"

C7_Witness ==
    /\ Processed /\ NullCols = {"stats_reset"}
    /\ \E i \in 1..Len(sink) :
          /\ sink[i].row = fetched
          /\ sink[i].metric.desc.name = "stats_reset"
          /\ sink[i].metric.value = <<0, 1>>

\* C8: when query execution fails (Update is past the query and holds no
\* result handle), Update has returned a non-nil error, no row was fetched
\* and the sink received nothing.
C8_QueryFailureAborts ==
    (pc # "start" /\ rows = "none")
    => /\ pc = "done" /\ ret = "QueryErr"
       /\ fetched = 0
       /\ sink = <<>>

C8_Witness ==
    pc = "done" /\ ret = "QueryErr" /\ ~cancelled /\ sink = <<>> /\ fetched = 0

\* C9: once the query succeeded, Update never returns with the result handle
\* open, and it fetches and scans only while the handle is open.
C9_HandleClosedOnReturn ==
    /\ (pc = "done" /\ rows # "none") => rows = "closed"
    /\ pc \in {"next", "scan", "push"} => rows = "open"

C9_Witness ==
    /\ pc = "done" /\ ret = "ScanErr" /\ rows = "closed"
    /\ fetched = 2 /\ sink = <<>>

\* C10: emission is all-or-nothing per row: a processed row yields either no
\* observation or the full count for the version, and none exactly when a
\* requested column other than stats_reset is NULL.
C10_AllOrNothing ==
    Processed
    => LET n == Len(ObsOfRow(fetched))
       IN  /\ n \in {0, FullCount}
           /\ n = 0 <=> (NullCols \ {"stats_reset"}) # {}

C10_Witness ==
    /\ Processed /\ fetched = 2
    /\ version[1] < 14
    /\ NullCols = {}
    /\ Len(ObsOfRow(1)) = 0
    /\ Len(ObsOfRow(2)) = 17
====
